---- MODULE Spec2Model ----
(***************************************************************************)
(* A model of rendering/_core.py: the kernel source generator and its      *)
(* dispatchers, the struct mirror generator, clear/mapped of the memory    *)
(* manager, and dot/normalize of the transform library.                    *)
(*                                                                         *)
(* Text is modelled as a sequence of tokens, so that `+=` on __code__ is   *)
(* sequence concatenation.  A Python call that may raise is modelled by a  *)
(* result record [ok, text, err].                                          *)
(***************************************************************************)
EXTENDS Integers, Sequences, FiniteSets, TLC

VARIABLES
    code,           \* __code__, the shared kernel source buffer
    dtype_to_name,  \* pyopencl's dtype registry, dtype -> C name
    name_to_dtype,  \* pyopencl's dtype registry, C name -> dtype
    dispatchers,    \* the Dispatcher objects returned by kernel_main, in order
    compiled,       \* history: every Program built, in order: [disp, source]
    last,           \* history: the latest call and how it ended
    mems,           \* the device memory object created, if any (one per behaviour)
    guards,         \* the _ctx objects returned by mapped(b)
    held,           \* how many host mappings (MemoryMap objects) are not released
    vec,            \* the vector handed to normalize
    unit,           \* normalize(vec), once computed
    unit_dot        \* dot(unit, unit), once computed

kstate == <<code, dtype_to_name, name_to_dtype, dispatchers, compiled>>

mvars == <<mems, guards, held>>

tvars == <<vec, unit, unit_dot>>

(***************************************************************************)
(* Bounds of the model.                                                    *)
(***************************************************************************)
MaxChunks == 2        \* declarations appended to __code__ after the prelude
MaxDispatchers == 2   \* Dispatcher objects alive
MaxBuilds == 3        \* Programs built
MaxParams == 1        \* parameters of a declared function (SpecDecl)
MaxGuards == 2        \* _ctx objects
MaxMaps == 3          \* mappings held at once
MaxComp == 2          \* magnitude of a vector component

None == [kind |-> "None"]

(***************************************************************************)
(* Annotations.  kind is "empty" (inspect.Signature.empty), "none" (None), *)
(* "dtype" (a numpy dtype, name is its key), "str" (a string, name is the  *)
(* text) or "list" (a Python list, elems are its elements).                *)
(***************************************************************************)
EMPTY == [kind |-> "empty", name |-> "", elems |-> <<>>]
NONE == [kind |-> "none", name |-> "", elems |-> <<>>]
Dt(n) == [kind |-> "dtype", name |-> n, elems |-> <<>>]
Str(s) == [kind |-> "str", name |-> s, elems |-> <<>>]
List(es) == [kind |-> "list", name |-> "", elems |-> es]

Raise(e) == [ok |-> FALSE, text |-> <<>>, err |-> e]
Return(t) == [ok |-> TRUE, text |-> t, err |-> ""]

\* __code__ as the module leaves it after import: the transpose/mul prelude.
Prelude == <<"#define float4x4 float16", "float4x4 transpose(float4x4 m)",
             "float4 mul(float4 v, float4x4 m)">>

\* The registry after lines 33-47: the scalar and vector types are known.
InitDtypeToName == [d \in {"f4", "i4", "V4f"} |->
    CASE d = "f4" -> "float" [] d = "i4" -> "int" [] d = "V4f" -> "float4"]
InitNameToDtype == [n \in {"float", "int", "float4"} |->
    CASE n = "float" -> "f4" [] n = "int" -> "i4" [] n = "float4" -> "V4f"]

\* cltools.dtype_to_ctype: the registered C name, ValueError for anything else.
dtype_to_ctype(d2n, annotation) ==
    IF annotation.kind = "dtype" /\ annotation.name \in DOMAIN d2n
    THEN Return(<<d2n[annotation.name]>>)
    ELSE Raise("ValueError")

\* The assertion of line 123.
PointerAllowed(is_pointer, assert_no_pointer) ==
    ~(assert_no_pointer /\ is_pointer)

_get_annotation_as_cltype(d2n, annotation, assert_no_pointer) ==
    IF annotation.kind = "none" THEN Return(<<"void">>)
    ELSE IF annotation.kind = "list" /\ Len(annotation.elems) # 1
    THEN Raise("AssertionError")
    ELSE LET is_pointer == annotation.kind = "list"
             a == IF is_pointer THEN annotation.elems[1] ELSE annotation
         IN  IF a.kind = "str" THEN Return(<<a.name>>)
             ELSE IF ~PointerAllowed(is_pointer, assert_no_pointer)
             THEN Raise("AssertionError")
             ELSE LET c == dtype_to_ctype(d2n, a)
                  IN  IF ~c.ok THEN c
                      ELSE Return((IF is_pointer THEN <<"__global">> ELSE <<>>)
                                  \o c.text
                                  \o (IF is_pointer THEN <<"*">> ELSE <<>>))

\* _get_signature: every parameter must carry an annotation.
_get_signature(f) ==
    IF \A i \in DOMAIN f.params : f.params[i].annotation # EMPTY
    THEN [ok |-> TRUE, s |-> f.params, return_annotation |-> f.ret, err |-> ""]
    ELSE [ok |-> FALSE, s |-> <<>>, return_annotation |-> EMPTY,
          err |-> "AssertionError"]

\* ', '.join(cltype(v.annotation) + " " + v.name for k, v in s)
RECURSIVE JoinParams(_, _, _, _)
JoinParams(d2n, s, i, assert_no_pointer) ==
    IF i > Len(s) THEN Return(<<>>)
    ELSE LET c == _get_annotation_as_cltype(d2n, s[i].annotation, assert_no_pointer)
             rest == JoinParams(d2n, s, i + 1, assert_no_pointer)
         IN  IF ~c.ok THEN c
             ELSE IF ~rest.ok THEN rest
             ELSE Return(c.text \o <<s[i].name>>
                         \o (IF i < Len(s) THEN <<",">> ELSE <<>>) \o rest.text)

\* `__code__ = text`: an assignment in place of the append.
EmitOverwrite(buf, text) == text

\* `__code__ += text`
Emit(buf, text) == buf \o text

\* Declarations appended so far: a function has one "(", a struct one ";".
Chunks(buf) == Cardinality({i \in DOMAIN buf : buf[i] \in {"(", ";"}})

Outcome(op, arg, r, before, built, launched) ==
    [op |-> op, arg |-> arg, raised |-> ~r.ok, err |-> r.err, before |-> before,
     built |-> built, launched |-> launched]

(***************************************************************************)
(* kernel_function(f): f is [name, params, ret, doc], params a sequence of *)
(* [name, annotation].  The f-string is evaluated before `+=` assigns.     *)
(***************************************************************************)
kernel_function_text(d2n, f) ==
    LET sig == _get_signature(f)
    IN  IF ~sig.ok THEN Raise(sig.err)
        ELSE LET rt == _get_annotation_as_cltype(d2n, sig.return_annotation, TRUE)
                 ps == JoinParams(d2n, sig.s, 1, TRUE)
             IN  IF ~rt.ok THEN rt
                 ELSE IF ~ps.ok THEN ps
                 ELSE Return(rt.text \o <<f.name, "(">> \o ps.text
                             \o <<")", "{", f.doc, "}">>)

kernel_function(f) ==
    /\ Chunks(code) < MaxChunks
    /\ LET r == kernel_function_text(dtype_to_name, f)
       IN  /\ code' = IF r.ok THEN Emit(code, r.text) ELSE code
           /\ last' = Outcome("kernel_function", f, r, code, FALSE, <<>>)
    /\ UNCHANGED <<dtype_to_name, name_to_dtype, dispatchers, compiled, mvars, tvars>>

(***************************************************************************)
(* kernel_main(f): the return annotation must be inspect.Signature.empty;  *)
(* a Dispatcher with its own `program = None` is returned.                 *)
(***************************************************************************)
IsVoidReturn(return_annotation) == return_annotation = EMPTY

kernel_main_text(d2n, f) ==
    LET sig == _get_signature(f)
    IN  IF ~sig.ok THEN Raise(sig.err)
        ELSE IF ~IsVoidReturn(sig.return_annotation) THEN Raise("AssertionError")
        ELSE LET ps == JoinParams(d2n, sig.s, 1, FALSE)
             IN  IF ~ps.ok THEN ps
                 ELSE Return(<<"__kernel", "void", f.name, "(">> \o ps.text
                             \o <<")", "{", "int thread_id = get_global_id(0);",
                                  f.doc, "}">>)

kernel_main(f) ==
    /\ Chunks(code) < MaxChunks
    /\ Len(dispatchers) < MaxDispatchers
    /\ LET r == kernel_main_text(dtype_to_name, f)
       IN  /\ code' = IF r.ok THEN Emit(code, r.text) ELSE code
           /\ dispatchers' = IF r.ok
                THEN Append(dispatchers,
                            [name |-> f.name, s |-> f.params, program |-> None])
                ELSE dispatchers
           /\ last' = Outcome("kernel_main", f, r, code, FALSE, <<>>)
    /\ UNCHANGED <<dtype_to_name, name_to_dtype, compiled, mvars, tvars>>

(***************************************************************************)
(* kernel_struct(cls): cls is [name, annotated, fields, attrs, layout]:    *)
(* annotated says whether cls.__dict__ has '__annotations__', fields are   *)
(* the annotated names, attrs the public names of cls.__dict__, layout the *)
(* numpy dtype of the field list ("bad" when numpy rejects a field type).  *)
(***************************************************************************)
\* cltools.get_or_register_dtype(name, dtype), called on line 187.
get_or_register_dtype(d2n, n2d, name, dtype) ==
    IF name \in DOMAIN n2d /\ n2d[name] # dtype
    THEN [ok |-> FALSE, err |-> "RuntimeError", d2n |-> d2n, n2d |-> n2d]
    ELSE [ok |-> TRUE, err |-> "",
          n2d |-> [n \in DOMAIN n2d \cup {name} |->
                      IF n = name THEN dtype ELSE n2d[n]],
          d2n |-> [d \in DOMAIN d2n \cup {dtype} |->
                      IF d \in DOMAIN d2n THEN d2n[d] ELSE name]]

\* Lines 181-184: what precedes the append, and the struct's C declaration.
kernel_struct_cltype(cls) ==
    IF ~cls.annotated THEN Raise("KeyError")
    ELSE IF ~(cls.attrs \subseteq {cls.fields[i] : i \in DOMAIN cls.fields})
    THEN Raise("AssertionError")
    ELSE IF cls.layout = "bad" THEN Raise("TypeError")
    ELSE Return(<<"typedef struct {", cls.layout, "}", cls.name, ";">>)

kernel_struct(cls) ==
    /\ Chunks(code) < MaxChunks
    /\ LET c == kernel_struct_cltype(cls)
           g == get_or_register_dtype(dtype_to_name, name_to_dtype,
                                      cls.name, cls.layout)
       IN  IF ~c.ok
           THEN /\ last' = Outcome("kernel_struct", cls, c, code, FALSE, <<>>)
                /\ UNCHANGED <<code, dtype_to_name, name_to_dtype, mvars, tvars>>
           ELSE /\ code' = Emit(code, c.text)
                /\ dtype_to_name' = g.d2n
                /\ name_to_dtype' = g.n2d
                /\ last' = Outcome("kernel_struct", cls, g, code, FALSE, <<>>)
    /\ UNCHANGED <<dispatchers, compiled, mvars, tvars>>

(***************************************************************************)
(* dispatcher[num_threads](args...).  num_threads is                       *)
(* [seq, n, dims]: an integer n, or a list/tuple dims.  An argument is     *)
(* [kind, v]: a pyopencl Array ("Array", v its identity), a Python int     *)
(* ("int", v its value) or anything else ("other").                        *)
(***************************************************************************)
RECURSIVE prod(_)
prod(dims) == IF dims = <<>> THEN 1 ELSE Head(dims) * prod(Tail(dims))

Dispatcher__getitem__(num_threads) ==
    IF num_threads.seq THEN prod(num_threads.dims) ELSE num_threads.n

\* resolve_arg with the pointer and value branches exchanged.
resolve_arg_swapped(a, annotation) ==
    LET a1 == IF a.kind = "Array"
              THEN IF annotation.kind = "list"
                   THEN [kind |-> "ndarray", v |-> a.v]
                   ELSE [kind |-> "Buffer", v |-> a.v]
              ELSE a
    IN  IF a1.kind = "int" THEN [kind |-> "int32", v |-> a1.v] ELSE a1

resolve_arg(a, annotation) ==
    LET a1 == IF a.kind = "Array"
              THEN IF annotation.kind = "list"
                   THEN [kind |-> "Buffer", v |-> a.v]     \* a.data
                   ELSE [kind |-> "ndarray", v |-> a.v]    \* a.get()
              ELSE a
    IN  IF a1.kind = "int" THEN [kind |-> "int32", v |-> a1.v] ELSE a1

\* zip(args, s)
Zip(args, s) ==
    [j \in 1..(IF Len(args) < Len(s) THEN Len(args) ELSE Len(s)) |->
        <<args[j], s[j]>>]

MarshalArgs(args, s) ==
    LET z == Zip(args, s)
    IN  [j \in DOMAIN z |-> resolve_arg(z[j][1], z[j][2].annotation)]

\* A dispatcher that compiles on every invocation.
NeedsBuildAlways(program) == TRUE

\* `if program is None`
NeedsBuild(program) == program = None

\* program.__getattr__(name): the kernel must be in the compiled source.
HasKernel(source, name) ==
    \E j \in DOMAIN source :
        source[j] = "__kernel" /\ j + 2 <= Len(source) /\ source[j + 2] = name

dispatch_call(i, num_threads, args, build_ok) ==
    /\ i \in DOMAIN dispatchers
    /\ LET d == dispatchers[i]
           need == NeedsBuild(d.program)
           source == IF need THEN code ELSE d.program.source
           call == [disp |-> i, num_threads |-> num_threads, args |-> args]
       IN  /\ need => Len(compiled) < MaxBuilds
           /\ IF need /\ ~build_ok
              THEN /\ last' = Outcome("dispatch_call", call, Raise("BuildError"),
                                      code, FALSE, <<>>)
                   /\ UNCHANGED <<dispatchers, compiled>>
              ELSE /\ dispatchers' = [dispatchers EXCEPT ![i].program =
                                        [kind |-> "Program", source |-> source]]
                   /\ compiled' = IF need
                        THEN Append(compiled, [disp |-> i, source |-> source])
                        ELSE compiled
                   /\ last' = IF HasKernel(source, d.name)
                        THEN Outcome("dispatch_call", call, Return(<<>>), code, need,
                                <<[kernel |-> d.name,
                                   global_size |-> Dispatcher__getitem__(num_threads),
                                   args |-> MarshalArgs(args, d.s)]>>)
                        ELSE Outcome("dispatch_call", call, Raise("AttributeError"),
                                     code, need, <<>>)
    /\ UNCHANGED <<code, dtype_to_name, name_to_dtype, mvars, tvars>>

(***************************************************************************)
(* Memory.  A Buffer is [kind, size, data, cleared]: data its bytes,       *)
(* cleared a history flag, TRUE from a clear() with the default value      *)
(* until the next write.  An Image is [kind, format, type, width, height,  *)
(* depth, data], data its pixels, each a tuple of four channel values.     *)
(* A target is what the caller passes to clear() and mapped(): a Buffer,   *)
(* an Image, or a pyopencl Array over a Buffer: [kind, mem, offset, size]. *)
(***************************************************************************)
Zeros(n) == [i \in 1..n |-> 0]

__IMAGE_FORMATS__ ==
    [d \in {"float4", "float3", "float2", "float32", "RGBA"} |->
        CASE d = "float4" -> [order |-> "RGBA", channel_type |-> "FLOAT"]
          [] d = "float3" -> [order |-> "RGB", channel_type |-> "FLOAT"]
          [] d = "float2" -> [order |-> "RG", channel_type |-> "FLOAT"]
          [] d = "float32" -> [order |-> "R", channel_type |-> "FLOAT"]
          [] d = "RGBA" -> [order |-> "BGRA", channel_type |-> "UNORM_INT8"]]

__CHANNEL_TYPE_TO_DTYPE__ ==
    [t \in {"FLOAT", "SIGNED_INT32", "SIGNED_INT8", "UNSIGNED_INT32",
            "UNSIGNED_INT8", "UNORM_INT8"} |->
        CASE t = "FLOAT" -> "float32"
          [] t = "SIGNED_INT32" -> "int32"
          [] t = "SIGNED_INT8" -> "int8"
          [] t = "UNSIGNED_INT32" -> "uint32"
          [] t = "UNSIGNED_INT8" -> "uint8"
          [] t = "UNORM_INT8" -> "int8"]

__CHANNEL_ORDER_TO_COMPONENTS__ ==
    [o \in {"BGRA", "RGBA", "RGB", "RG", "R"} |->
        CASE o = "BGRA" -> 4 [] o = "RGBA" -> 4 [] o = "RGB" -> 3
          [] o = "RG" -> 2 [] o = "R" -> 1]

Max(a, b) == IF a > b THEN a ELSE b

MemOutcome(op, target, r, view) ==
    [op |-> op, target |-> target, raised |-> ~r.ok, err |-> r.err, view |-> view]

\* create_buffer(count, dtype): cla.zeros; dtype is given by its item size.
create_buffer(count, itemsize) ==
    /\ mems = <<>>
    /\ mems' = Append(mems, [kind |-> "Buffer", size |-> count * itemsize,
                              data |-> Zeros(count * itemsize), cleared |-> FALSE])
    /\ last' = MemOutcome("create_buffer", <<>>, Return(<<>>), <<>>)
    /\ UNCHANGED <<guards, held, kstate, tvars>>

\* create_buffer_from(ary): ary is given by its bytes.
create_buffer_from(ary) ==
    /\ mems = <<>>
    /\ mems' = Append(mems, [kind |-> "Buffer", size |-> Len(ary),
                              data |-> ary, cleared |-> FALSE])
    /\ last' = MemOutcome("create_buffer_from", <<>>, Return(<<>>), <<>>)
    /\ UNCHANGED <<guards, held, kstate, tvars>>

\* create_image2d(width, height, dtype); a new image's pixels are modelled
\* as zero.
create_image2d(width, height, dtype) ==
    /\ mems = <<>>
    /\ IF dtype \in DOMAIN __IMAGE_FORMATS__
       THEN /\ mems' = Append(mems,
                  [kind |-> "Image", format |-> __IMAGE_FORMATS__[dtype],
                   type |-> "IMAGE2D", width |-> width, height |-> height,
                   depth |-> 0, data |-> [i \in 1..(width * height) |-> Zeros(4)]])
            /\ last' = MemOutcome("create_image2d", <<>>, Return(<<>>), <<>>)
       ELSE /\ mems' = mems
            /\ last' = MemOutcome("create_image2d", <<>>, Raise("AssertionError"), <<>>)
    /\ UNCHANGED <<guards, held, kstate, tvars>>

\* Image = cl.Image (line 239): an image of any format the device offers.
Image(width, format) ==
    /\ mems = <<>>
    /\ mems' = Append(mems,
          [kind |-> "Image", format |-> format, type |-> "IMAGE2D", width |-> width,
           height |-> 1, depth |-> 0, data |-> [i \in 1..width |-> Zeros(4)]])
    /\ last' = MemOutcome("Image", <<>>, Return(<<>>), <<>>)
    /\ UNCHANGED <<guards, held, kstate, tvars>>

\* cl.enqueue_fill_buffer(queue, mem, pattern, offset, size): size bytes from
\* offset are filled with the pattern repeated; a range that leaves the
\* buffer is an error.
enqueue_fill_buffer(m, pattern, offset, size) ==
    IF offset + size > m.size THEN [ok |-> FALSE, err |-> "CL_INVALID_VALUE", mem |-> m]
    ELSE [ok |-> TRUE, err |-> "",
          mem |-> [m EXCEPT !.data =
                      [i \in 1..m.size |->
                          IF i > offset /\ i <= offset + size
                          THEN pattern[((i - offset - 1) % Len(pattern)) + 1]
                          ELSE m.data[i]]]]

\* The fill that clear() asks for on a Buffer (line 252).
FillExtent(m, value) == Len(value.bytes)

\* cl.enqueue_fill_image over the region (width, max(1,height), max(1,depth)).
enqueue_fill_image(m, color) ==
    [m EXCEPT !.data = [i \in 1..(m.width * Max(1, m.height) * Max(1, m.depth)) |-> color]]

\* np.float32(0), the default of clear's value.
DefaultValue == [elems |-> <<0>>, bytes |-> <<0, 0, 0, 0>>]

\* clear(b, value): value is [elems, bytes], its elements and its raw bytes.
clear(b, value) ==
    /\ b.mem \in DOMAIN mems
    /\ LET m == mems[b.mem]
       IN  IF b.kind = "Buffer"
           THEN LET f == enqueue_fill_buffer(m, value.bytes, 0, FillExtent(m, value))
                IN  /\ mems' = [mems EXCEPT ![b.mem] =
                                  [f.mem EXCEPT !.cleared =
                                      IF f.ok THEN value = DefaultValue ELSE @]]
                    /\ last' = MemOutcome("clear", b, f, <<>>)
           ELSE IF b.kind = "Image"
           THEN LET color == IF Len(value.elems) <= 1
                             THEN [i \in 1..4 |-> value.elems[1]]
                             ELSE value.elems
                IN  /\ mems' = [mems EXCEPT ![b.mem] = enqueue_fill_image(m, color)]
                    /\ last' = MemOutcome("clear", b, Return(<<>>), <<>>)
           ELSE \* a pyopencl Array has no width
                /\ mems' = mems
                /\ last' = MemOutcome("clear", b, Raise("AttributeError"), <<>>)
    /\ UNCHANGED <<guards, held, kstate, tvars>>

\* mapped(b): a new _ctx with self.mapped = None.
mapped(b) ==
    /\ b.mem \in DOMAIN mems
    /\ Len(guards) < MaxGuards
    /\ guards' = Append(guards, [b |-> b, mapped |-> "None", pc |-> "new"])
    /\ last' = MemOutcome("mapped", b, Return(<<>>), <<>>)
    /\ UNCHANGED <<mems, held, kstate, tvars>>

\* The bytes or pixels that __enter__ maps, or the error it raises.
MapRegion(b, m) ==
    IF b.kind = "Image"
    THEN IF m.format.channel_type \notin DOMAIN __CHANNEL_TYPE_TO_DTYPE__
            \/ m.format.order \notin DOMAIN __CHANNEL_ORDER_TO_COMPONENTS__
         THEN Raise("KeyError")
         ELSE LET cmps == __CHANNEL_ORDER_TO_COMPONENTS__[m.format.order]
              IN  Return([i \in DOMAIN m.data |-> SubSeq(m.data[i], 1, cmps)])
    ELSE IF b.kind = "Buffer"
    THEN Return(SubSeq(m.data, 1, m.size))
    ELSE IF b.offset + b.size > m.size THEN Raise("CL_INVALID_VALUE")
    ELSE Return(SubSeq(m.data, b.offset + 1, b.offset + b.size))

\* _ctx.__enter__: entered from a `with` statement; when it raises, the
\* scope is not entered and __exit__ is not called.  A _ctx belongs to the
\* `with` statement that made it, so it is not entered again while its scope
\* is open; it may be entered again once the scope has been left.
__enter__(g) ==
    /\ g \in DOMAIN guards
    /\ guards[g].pc # "in"
    /\ held < MaxMaps
    /\ LET b == guards[g].b
           r == MapRegion(b, mems[b.mem])
       IN  /\ IF r.ok
              THEN /\ held' = held + 1
                   /\ guards' = [guards EXCEPT ![g].mapped = "live", ![g].pc = "in"]
              ELSE UNCHANGED <<held, guards>>
           /\ last' = MemOutcome("__enter__", b, r, r.text)
    /\ UNCHANGED <<mems, kstate, tvars>>

\* The caller's use of the view inside the scope: a write of one element.
host_write(g, i, x) ==
    /\ g \in DOMAIN guards
    /\ guards[g].pc = "in"
    /\ LET b == guards[g].b
           m == mems[b.mem]
           off == IF b.kind = "Array" THEN b.offset ELSE 0
       IN  /\ b.kind # "Image"
           /\ off + i \in DOMAIN m.data
           /\ mems' = [mems EXCEPT ![b.mem].data[off + i] = x, ![b.mem].cleared = FALSE]
           /\ last' = MemOutcome("host_write", b, Return(<<>>), <<>>)
    /\ UNCHANGED <<guards, held, kstate, tvars>>

\* A release that is skipped when the body raised.
ReleaseUnlessError(mapping, exc) == IF exc THEN mapping ELSE "released"

\* self.mapped[0].base.release(): what becomes of the MemoryMap.
Release(mapping, exc) == "released"

\* _ctx.__exit__(exc_type, ...): the `with` statement calls it when the body
\* ends and when the body raises (exc).  It returns None, so the error goes on.
__exit__(g, exc) ==
    /\ g \in DOMAIN guards
    /\ guards[g].pc = "in"
    /\ LET m == Release(guards[g].mapped, exc)
       IN  /\ guards' = [guards EXCEPT ![g].mapped = m, ![g].pc = "out"]
           /\ held' = IF guards[g].mapped = "live" /\ m = "released"
                      THEN held - 1 ELSE held
    /\ last' = MemOutcome("__exit__", guards[g].b,
                          IF exc THEN Raise("body") ELSE Return(<<>>), <<>>)
    /\ UNCHANGED <<mems, kstate, tvars>>

(***************************************************************************)
(* Vectors.  A vector is [dtype, c, k, nan]: dtype its registered type, c  *)
(* its stored components (float3 is stored four wide), and its value is    *)
(* c / l^k, where l = sqrt(dot(v, v)) is the length of the vector v handed *)
(* to normalize: dividing by l adds one to k.  A scalar is [p, k, nan],    *)
(* the number p / l^k.  nan marks the result of a division by zero.        *)
(***************************************************************************)
Vec(dtype, c) == [dtype |-> dtype, c |-> c, k |-> 0, nan |-> FALSE]

make_float2(x, y) == Vec("float2", <<x, y>>)

\* make_float3 of components, and of an ndarray (line 67): a zero is appended.
make_float3(x, y, z) == Vec("float3", <<x, y, z, 0>>)

make_float3_from(a) == [dtype |-> "float3", c |-> a.c \o <<0>>, k |-> a.k, nan |-> a.nan]

make_float4(x, y, z, w) == Vec("float4", <<x, y, z, w>>)

\* to_array: a plain float32 array; float3 drops the fourth stored component.
to_array(x) ==
    [dtype |-> "float32", k |-> x.k, nan |-> x.nan,
     c |-> IF x.dtype = "float3" THEN SubSeq(x.c, 1, 3) ELSE x.c]

\* dot: the sum of products over the components of the type.
dot(v1, v2) ==
    LET s(m) == [p |-> IF m = 2 THEN v1.c[1] * v2.c[1] + v1.c[2] * v2.c[2]
                       ELSE IF m = 3 THEN v1.c[1] * v2.c[1] + v1.c[2] * v2.c[2]
                                          + v1.c[3] * v2.c[3]
                       ELSE v1.c[1] * v2.c[1] + v1.c[2] * v2.c[2]
                            + v1.c[3] * v2.c[3] + v1.c[4] * v2.c[4],
                 k |-> v1.k + v2.k, nan |-> v1.nan \/ v2.nan, ok |-> TRUE]
    IN  IF v1.dtype # v2.dtype THEN [p |-> 0, k |-> 0, nan |-> FALSE, ok |-> FALSE]
        ELSE IF v1.dtype = "float2" THEN s(2)
        ELSE IF v1.dtype = "float3" THEN s(3)
        ELSE IF v1.dtype = "float4" THEN s(4)
        ELSE [p |-> 0, k |-> 0, nan |-> FALSE, ok |-> FALSE]

\* x / l for an array x, l being np.sqrt of the scalar d.
DivByLength(x, d) == [x EXCEPT !.k = @ + 1, !.nan = @ \/ d.p = 0]

\* (v / l).view(v_dtype): the last statement of normalize (line 377).
NormalizedView(a, d, v_dtype) == [DivByLength(a, d) EXCEPT !.dtype = v_dtype]

normalize(x) ==
    LET v_dtype == x.dtype
        d == dot(x, x)
        a == DivByLength(to_array(x), d)
    IN  IF v_dtype = "float3" THEN make_float3_from(a)
        ELSE NormalizedView(a, d, v_dtype)

NoValue == [dtype |-> "", c |-> <<>>, k |-> 0, nan |-> FALSE]

NoScalar == [p |-> 0, k |-> 0, nan |-> FALSE, ok |-> FALSE]

call_normalize ==
    /\ unit = NoValue
    /\ unit' = normalize(vec)
    /\ UNCHANGED <<vec, unit_dot, kstate, mvars, last>>

call_dot ==
    /\ unit # NoValue
    /\ unit_dot = NoScalar
    /\ unit_dot' = dot(unit, unit)
    /\ UNCHANGED <<vec, unit, kstate, mvars, last>>

(***************************************************************************)
(* The inputs of the declaration calls.                                    *)
(***************************************************************************)
SeqsUpTo(S, n) == UNION {[1..k -> S] : k \in 0..n}

PName(i) == IF i = 1 THEN "a" ELSE IF i = 2 THEN "b" ELSE "c"

Fn(name, annotations, ret) ==
    [name |-> name,
     params |-> [i \in DOMAIN annotations |->
                    [name |-> PName(i), annotation |-> annotations[i]]],
     ret |-> ret, doc |-> "body"]

ParamAnnots ==
    {EMPTY, Dt("f4"), Str("read_only image2d_t"),
     List(<<Dt("f4")>>), List(<<Dt("V4f")>>), List(<<Str("P")>>),
     List(<<Str("read_only image2d_t")>>), List(<<Dt("f4"), Dt("f4")>>)}

ReturnAnnots == {EMPTY, NONE, Dt("V4f"), Str("P"), List(<<Dt("f4")>>)}

Functions ==
    {Fn("f", as, r) : as \in SeqsUpTo(ParamAnnots, MaxParams), r \in ReturnAnnots}

Classes ==
    [name : {"P", "Q"}, annotated : BOOLEAN, fields : {<<"x">>},
     attrs : {{}, {"x"}, {"y"}}, layout : {"{x:f4}", "{x:i4}", "bad"}]

\* The smaller pools used where dispatching is explored: two entry points
\* whose pointer and value parameters come in opposite orders.
KernelPool ==
    {Fn("k1", <<List(<<Dt("f4")>>), Dt("i4")>>, r) : r \in {EMPTY, Dt("f4")}}
    \cup {Fn("k2", <<Dt("f4"), List(<<Dt("f4")>>)>>, r) : r \in {EMPTY, Dt("f4")}}

AuxPool == {Fn("f", <<Dt("V4f")>>, Dt("V4f")), Fn("f", <<List(<<Dt("f4")>>)>>, NONE)}

StructPool ==
    {c \in Classes : c.name = "P" /\ c.annotated /\ c.attrs = {"x"} /\ c.layout # "bad"}

ClArray(v) == [kind |-> "Array", v |-> v]
PyInt(v) == [kind |-> "int", v |-> v]
Other(v) == [kind |-> "other", v |-> v]

ArgLists ==
    {<<ClArray(1), PyInt(7)>>, <<PyInt(7), ClArray(1)>>, <<ClArray(1), ClArray(2)>>,
     <<Other(3), ClArray(1), PyInt(7)>>, <<ClArray(1)>>}

ThreadCounts ==
    {[seq |-> FALSE, n |-> 12, dims |-> <<>>], [seq |-> TRUE, n |-> 0, dims |-> <<3, 4>>]}

Components == (0 - MaxComp)..MaxComp

Vectors ==
    {make_float2(x, y) : x \in Components, y \in Components}
    \cup {make_float3(x, y, z) : x \in Components, y \in Components, z \in Components}
    \cup {make_float4(x, y, z, w) : x \in Components, y \in Components,
                                    z \in Components, w \in Components}

vars == <<kstate, mvars, tvars, last>>

\* The module as imported: the prelude, the registry of lines 33-47, no
\* dispatcher, no memory object.  The vector variables are idle outside SpecMath.
Init ==
    /\ code = Prelude
    /\ dtype_to_name = InitDtypeToName
    /\ name_to_dtype = InitNameToDtype
    /\ dispatchers = <<>>
    /\ compiled = <<>>
    /\ last = Outcome("import", <<>>, Return(<<>>), <<>>, FALSE, <<>>)
    /\ mems = <<>>
    /\ guards = <<>>
    /\ held = 0
    /\ vec = make_float3(1, 0, 0)
    /\ unit = NoValue
    /\ unit_dot = NoScalar

\* The same, with any vector of the bounded set as the argument of normalize.
InitMath ==
    /\ code = Prelude
    /\ dtype_to_name = InitDtypeToName
    /\ name_to_dtype = InitNameToDtype
    /\ dispatchers = <<>>
    /\ compiled = <<>>
    /\ last = Outcome("import", <<>>, Return(<<>>), <<>>, FALSE, <<>>)
    /\ mems = <<>>
    /\ guards = <<>>
    /\ held = 0
    /\ vec \in Vectors
    /\ unit = NoValue
    /\ unit_dot = NoScalar

\* Declarations only, over every function and class of the input sets.
NextDecl ==
    \/ \E f \in Functions : kernel_function(f)
    \/ \E f \in Functions : kernel_main(f)
    \/ \E cls \in Classes : kernel_struct(cls)

SpecDecl == Init /\ [][NextDecl]_vars

\* Declarations and dispatches interleaved.
Next ==
    \/ \E f \in AuxPool : kernel_function(f)
    \/ \E f \in KernelPool : kernel_main(f)
    \/ \E cls \in StructPool : kernel_struct(cls)
    \/ \E i \in DOMAIN dispatchers, nt \in ThreadCounts, args \in ArgLists,
          build_ok \in BOOLEAN :
            dispatch_call(i, nt, args, build_ok)

Spec == Init /\ [][Next]_vars

\* The memory manager: what the caller may pass, and the calls.
HostArrays == {<<255, 255>>, <<255, 255, 255, 255, 255>>}

ClearValues ==
    {DefaultValue,
     [elems |-> <<1>>, bytes |-> <<0, 0, 128, 63>>],      \* np.float32(1)
     [elems |-> <<9, 8, 7, 6>>, bytes |-> <<9, 8, 7, 6>>]}  \* four uint8

Targets ==
    {[kind |-> k, mem |-> i, offset |-> 0, size |-> 0] :
        k \in {"Buffer", "Image"}, i \in DOMAIN mems}
    \cup {[kind |-> "Array", mem |-> i, offset |-> o, size |-> n] :
            i \in DOMAIN mems, o \in {0, 1}, n \in {1}}

ValidTargets ==
    {b \in Targets :
        /\ b.kind = "Image" <=> mems[b.mem].kind = "Image"
        /\ b.kind = "Array" => b.offset + b.size <= mems[b.mem].size}

NextMem ==
    \/ \E count \in {1, 2}, itemsize \in {1, 4} : create_buffer(count, itemsize)
    \/ \E ary \in HostArrays : create_buffer_from(ary)
    \/ \E w \in {1, 2}, dtype \in {"float4", "float32", "int4"} : create_image2d(w, 1, dtype)
    \/ \E w \in {1, 2} : Image(w, [order |-> "RGBA", channel_type |-> "HALF_FLOAT"])
    \/ \E b \in ValidTargets, value \in ClearValues : clear(b, value)
    \/ \E b \in ValidTargets : mapped(b)
    \/ \E g \in DOMAIN guards : __enter__(g)
    \/ \E g \in DOMAIN guards, i \in {1, 5} : host_write(g, i, 255)
    \/ \E g \in DOMAIN guards, exc \in BOOLEAN : __exit__(g, exc)

SpecMem == Init /\ [][NextMem]_vars

\* The transform library: normalize a vector, then take dot of the result.
NextMath == call_normalize \/ call_dot

SpecMath == InitMath /\ [][NextMath]_vars

(***************************************************************************)
(* Claims about the kernel source generator and the dispatchers.           *)
(***************************************************************************)
IsPrefix(p, q) == Len(p) <= Len(q) /\ SubSeq(q, 1, Len(p)) = p

BuildsOf(i) == {j \in DOMAIN compiled : compiled[j].disp = i}

Declarations == {"kernel_function", "kernel_main", "kernel_struct"}

\* C1, as the claim states it: the source buffer is compiled into a Program at
\* most once in the process, whichever dispatcher is invoked.
C1_CompiledOncePerProcess == Len(compiled) <= 1

\* C1, amended: every dispatcher builds at most one Program, on its first
\* successful invocation, and keeps using that one; a dispatcher that has not
\* been invoked successfully holds none.
C1_CompiledOncePerDispatcher ==
    \A i \in DOMAIN dispatchers :
        /\ Cardinality(BuildsOf(i)) <= 1
        /\ dispatchers[i].program = None => BuildsOf(i) = {}
        /\ dispatchers[i].program # None =>
              \E j \in BuildsOf(i) :
                  dispatchers[i].program.source = compiled[j].source

\* Two dispatchers have each built a Program and a later invocation reused one.
C1_Witness ==
    /\ last.op = "dispatch_call" /\ ~last.raised /\ ~last.built
    /\ Cardinality({compiled[j].disp : j \in DOMAIN compiled}) = 2

\* C9, as the claim states it: once a Program has been compiled the buffer
\* keeps the contents that were compiled.
C9_ImmutableOnceCompiled == compiled # <<>> => code = compiled[1].source

\* C9, amended: the buffer is append-only; the source of every Program built
\* so far is a prefix of the buffer, which later declarations still extend.
C9_CompiledSourceIsPrefix ==
    \A j \in DOMAIN compiled : IsPrefix(compiled[j].source, code)

\* A declaration made after a dispatch has extended the buffer.
C9_Witness ==
    /\ compiled # <<>>
    /\ last.op \in Declarations /\ ~last.raised
    /\ Len(code) > Len(compiled[1].source)

\* What the claim says the kernel receives for argument a of parameter p.
Marshalled(a, p) ==
    CASE a.kind = "Array" /\ p.annotation.kind = "list" -> [kind |-> "Buffer", v |-> a.v]
      [] a.kind = "Array" /\ p.annotation.kind # "list" -> [kind |-> "ndarray", v |-> a.v]
      [] a.kind = "int" -> [kind |-> "int32", v |-> a.v]
      [] OTHER -> a

\* C8: the kernel of the dispatcher's entry point receives, in declared
\* parameter order, the i-th argument marshalled by the i-th parameter.
C8_ArgumentsMarshalled ==
    (last.op = "dispatch_call" /\ last.launched # <<>>) =>
        LET d == dispatchers[last.arg.disp]
            args == last.arg.args
            got == last.launched[1].args
        IN  /\ last.launched[1].kernel = d.name
            /\ Len(got) = (IF Len(args) < Len(d.s) THEN Len(args) ELSE Len(d.s))
            /\ \A j \in DOMAIN got : got[j] = Marshalled(args[j], d.s[j])

\* A launch with a device array for a value parameter, another for a pointer
\* parameter, and a launch with a host integer.
C8_Witness ==
    /\ last.op = "dispatch_call" /\ last.launched # <<>>
    /\ last.arg.args = <<ClArray(1), ClArray(2)>>
    /\ last.launched[1].args[1].kind # last.launched[1].args[2].kind

HasPointerParam(f) ==
    \E i \in DOMAIN f.params :
        f.params[i].annotation.kind = "list" /\ Len(f.params[i].annotation.elems) = 1

AllAnnotated(f) == \A i \in DOMAIN f.params : f.params[i].annotation # EMPTY

\* C4: declaring an auxiliary function with a parameter annotated [T] fails,
\* whatever T is.
C4_PointerParamRejected ==
    (last.op = "kernel_function" /\ HasPointerParam(last.arg)) => last.raised

\* C5: a kernel entry point whose parameters all render is accepted exactly
\* when its return annotation is absent or None.
C5_VoidReturnAccepted ==
    (/\ last.op = "kernel_main"
     /\ AllAnnotated(last.arg)
     /\ JoinParams(dtype_to_name, last.arg.params, 1, FALSE).ok)
    => (last.raised <=> last.arg.ret \notin {EMPTY, NONE})

\* C6: an auxiliary function without a return annotation is declared as
\* `void <name>(<params>) { <body> }`.
C6_AbsentReturnIsVoid ==
    LET f == last.arg
        ps == JoinParams(dtype_to_name, f.params, 1, TRUE)
    IN  (/\ last.op = "kernel_function"
         /\ f.ret = EMPTY
         /\ AllAnnotated(f)
         /\ ps.ok)
        => /\ ~last.raised
           /\ code = last.before \o <<"void", f.name, "(">> \o ps.text
                                 \o <<")", "{", f.doc, "}">>

\* C10: a declaration that raises leaves the source buffer as it was.
C10_FailedDeclarationKeepsBuffer ==
    (last.op \in Declarations /\ last.raised) => code = last.before

(***************************************************************************)
(* Claims about the memory manager.                                        *)
(***************************************************************************)
\* C2: a scope that has exited holds no mapping, whichever way it exited:
\* the mappings still held are exactly those of the scopes now open.
C2_MappingReleasedOnExit ==
    /\ \A g \in DOMAIN guards :
          /\ guards[g].pc = "out" => guards[g].mapped = "released"
          /\ guards[g].pc = "new" => guards[g].mapped = "None"
    /\ held = Cardinality({g \in DOMAIN guards : guards[g].pc = "in"})

\* A scope has been left by an error raised in its body.
C2_Witness ==
    /\ last.op = "__exit__" /\ last.raised
    /\ \E g \in DOMAIN guards : guards[g].pc = "out" /\ guards[g].b = last.target
    /\ held = 0

\* C3: after clear(buffer) with the default value, a scoped map of the buffer
\* sees only zero bytes.
C3_ClearedBufferMapsToZero ==
    (/\ last.op = "__enter__" /\ ~last.raised
     /\ last.target.kind = "Buffer"
     /\ mems[last.target.mem].cleared)
    => \A i \in DOMAIN last.view : last.view[i] = 0

(***************************************************************************)
(* Claims about the transform library.                                     *)
(***************************************************************************)
RECURSIVE Pow(_, _)
Pow(b, e) == IF e = 0 THEN 1 ELSE b * Pow(b, e - 1)

\* l^2, for the vector handed to normalize.
LengthSquared == dot(vec, vec).p

Sign(x) == IF x > 0 THEN 1 ELSE IF x < 0 THEN 0 - 1 ELSE 0

\* a / l^ka = b / l^kb, decided on the squares.
SameNumber(a, ka, b, kb) ==
    /\ Sign(a) = Sign(b)
    /\ a * a * Pow(LengthSquared, kb) = b * b * Pow(LengthSquared, ka)

\* C7: for a nonzero vector, normalize(v) has the type of v, is v divided once
\* by its length, and its dot product with itself is 1.
C7_NormalizeGivesUnitVector ==
    (unit # NoValue /\ LengthSquared # 0) =>
        /\ unit.dtype = vec.dtype
        /\ ~unit.nan
        /\ Len(unit.c) = Len(vec.c)
        /\ \A i \in DOMAIN unit.c : SameNumber(unit.c[i], unit.k, vec.c[i], 1)
        /\ unit_dot # NoScalar =>
              /\ unit_dot.ok /\ ~unit_dot.nan
              /\ SameNumber(unit_dot.p, unit_dot.k, 1, 0)

====
